---- MODULE Spec2Model ----
(***************************************************************************)
(* A model of obo_server.py: the lifespan of the asyncpg connection pool   *)
(* and the four request handlers (health, list_decks, get_deck, metrics)   *)
(* reading the decks and cards tables.  Every await of a query is one      *)
(* step of the handler, so that the external writer of the tables may act  *)
(* between two queries of the same request.                                *)
(***************************************************************************)
EXTENDS Integers, Sequences, FiniteSets, TLC

VARIABLES
    pool,     \* the global `pool`: "None", "open" or "closed" (closed: not None)
    life,     \* position of lifespan(): "start", "running", "done", "failed", "crashed"
    closes,   \* number of pool.close() calls made so far
    decks,    \* rows of table decks
    cards,    \* rows of table cards
    op,       \* the handler serving the request at hand
    pc,       \* its position: "idle", "q1" (before its first query), "q2", "done"
    args,     \* its parameters
    loc,      \* its local variables filled by the queries answered so far
    issued,   \* the queries it has issued, in order, each with its outcome
    resp,     \* what the handler produced: a returned response or a raised exception
    clean,    \* no row was written since the request began
    prev      \* the response of the request before, when both are get_deck of one id,
              \* it was a 200 and no row was written since it began

vars == <<pool, life, closes, decks, cards, op, pc, args, loc, issued, resp, clean, prev>>

---------------------------------------------------------------------------
(* Bounds of the model *)

\* decks + cards rows the external writer may have in the tables at once
MaxRows == 3
\* largest limit a request is issued with (within ge=1, le=200)
MaxLimit == 2
\* largest offset a request is issued with (within ge=0)
MaxOffset == 1

\* ids the writer gives to decks; AbsentId is never given to a deck
DeckIds == {1, 2}
AbsentId == 3
AgeRanges == {"6-8", "9-11"}
CardCounts == {0, 1}
Positions == {1, 2}
Questions == {"qa", "qb"}
\* non-None values of the age parameter
FilterValues == {"", "6-8"}

(* Constants of the program *)
LimitGe == 1
LimitLe == 200
OffsetGe == 0
HTTP_OK == 200
HTTP_NOT_FOUND == 404
HTTP_SERVER_ERROR == 500

---------------------------------------------------------------------------
(* Helpers *)

Min(a, b) == IF a < b THEN a ELSE b

\* str() of a small non-negative integer, as the f-strings format it
Digit(d) ==
    CASE d = 0 -> "0" [] d = 1 -> "1" [] d = 2 -> "2" [] d = 3 -> "3" [] d = 4 -> "4"
      [] d = 5 -> "5" [] d = 6 -> "6" [] d = 7 -> "7" [] d = 8 -> "8" [] d = 9 -> "9"

RECURSIVE IntStr(_)
IntStr(n) == IF n < 10 THEN <<Digit(n)>> ELSE IntStr(n \div 10) \o <<Digit(n % 10)>>

\* all orderings of a finite set as sequences
RECURSIVE Perms(_)
Perms(S) ==
    IF S = {} THEN {<<>>}
    ELSE UNION {{<<x>> \o p : p \in Perms(S \ {x})} : x \in S}

\* exceptions: a class and the text str(exc) gives
RuntimeErrorClass == "RuntimeError"
PoolNotInitialized == [cls |-> RuntimeErrorClass, msg |-> "Database pool not initialized"]
\* what a query may raise on an open pool: asyncio's RuntimeError (a future
\* attached to a different loop) and a driver error, which is a plain Exception
DbErrors ==
    {[cls |-> RuntimeErrorClass, msg |-> "attached to a different loop"],
     [cls |-> "PostgresError", msg |-> "connection lost"]}
IsInstance(exc, cls) == exc.cls = cls

NoArgs == [age |-> <<>>, limit |-> 0, offset |-> 0, deck_id |-> 0]
NoLoc == [none |-> TRUE]
NoResp == [kind |-> "none", status |-> 0, body |-> [none |-> TRUE]]

\* a query the database answered, and one that raised exc
Answered(q) == [q |-> q, ok |-> TRUE]
Failed(q, exc) == [q |-> q, ok |-> FALSE, exc |-> exc]

Returned(status, body) == [kind |-> "return", status |-> status, body |-> body]
\* an exception leaving the handler
Raised(exc) == [kind |-> "raise", status |-> 0, body |-> [exc |-> exc]]

---------------------------------------------------------------------------
(* The tables and their external writer *)

DeckRows == [id : DeckIds, age_range : AgeRanges, card_count : CardCounts]
CardRows == [deck_id : DeckIds, position : Positions, question : Questions]

\* the process is up: before startup completes, or between startup and shutdown
Serving == life \in {"start", "running"}

RowCount == Cardinality(decks) + Cardinality(cards)

\* A write while a request awaits a query is noted in `clean`.  A response
\* already delivered is forgotten at the next write: nothing relates it to
\* the tables any more.
Touched ==
    /\ Serving
    /\ IF pc = "done"
         THEN /\ op' = "idle" /\ pc' = "idle" /\ args' = NoArgs /\ issued' = <<>>
              /\ resp' = NoResp /\ clean' = TRUE
         ELSE /\ clean' = (clean /\ pc = "idle")
              /\ UNCHANGED <<op, pc, args, issued, resp>>
    /\ prev' = <<>>
    /\ UNCHANGED <<pool, life, closes, loc>>

InsertDeck ==
    /\ RowCount < MaxRows
    /\ \E d \in DeckRows :
          /\ \A e \in decks : e.id # d.id
          /\ decks' = decks \cup {d}
    /\ UNCHANGED cards
    /\ Touched

DeleteDeck ==
    /\ \E d \in decks :
          /\ decks' = decks \ {d}
          /\ cards' = {c \in cards : c.deck_id # d.id}
    /\ Touched

InsertCard ==
    /\ RowCount < MaxRows
    /\ \E c \in CardRows :
          /\ c \notin cards
          /\ \E d \in decks : d.id = c.deck_id
          /\ cards' = cards \cup {c}
    /\ UNCHANGED decks
    /\ Touched

DeleteCard ==
    /\ \E c \in cards : cards' = cards \ {c}
    /\ UNCHANGED decks
    /\ Touched

---------------------------------------------------------------------------
(* _require_pool and lifespan *)

\* _require_pool(): TRUE when it returns the pool, FALSE when it raises
RequirePoolOk == pool # "None"

Store == <<decks, cards>>
Request == <<op, pc, args, loc, issued, resp, clean, prev>>

\* pool = await asyncpg.create_pool(...) answers
StartupOk ==
    /\ life = "start"
    /\ pool' = "open"
    /\ life' = "running"
    /\ UNCHANGED <<closes, Store, Request>>

\* create_pool raises: the assignment does not happen
StartupFails ==
    /\ life = "start"
    /\ life' = "failed"
    /\ UNCHANGED <<pool, closes, Store, Request>>

\* the body of `async with lifespan(app)` ends normally: the generator resumes
LifespanResumeBody ==
    /\ IF pool # "None"
         THEN pool' = "closed" /\ closes' = closes + 1
         ELSE UNCHANGED <<pool, closes>>
    /\ life' = "done"

Shutdown ==
    /\ life = "running"
    /\ LifespanResumeBody
    /\ UNCHANGED <<Store, Request>>

\* the body raises: the exception is thrown into the generator at its yield,
\* which no try/finally encloses, so nothing after the yield runs
ShutdownByException ==
    /\ life = "running"
    /\ life' = "crashed"
    /\ UNCHANGED <<pool, closes, Store, Request>>

---------------------------------------------------------------------------
(* Requests *)

Begin(o, a) ==
    /\ Serving
    /\ pc \in {"idle", "done"}
    /\ op' = o
    /\ args' = a
    /\ loc' = NoLoc
    /\ issued' = <<>>
    /\ clean' = TRUE
    /\ prev' = IF /\ o = "get_deck" /\ op = "get_deck" /\ a.deck_id = args.deck_id
                  /\ pc = "done" /\ resp.kind = "return" /\ resp.status = HTTP_OK
                  /\ clean
               THEN <<resp>> ELSE <<>>
    /\ UNCHANGED <<pool, life, closes, Store>>

\* the handler o is suspended at the await of its query q
Awaiting(o, q) == Serving /\ op = o /\ pc = q

\* the handler ends: its locals are gone
Finish(r) ==
    /\ pc' = "done"
    /\ resp' = r
    /\ loc' = NoLoc

\* --- health ---

\* the try block of health once the query answered db_ok
HealthTry(db_ok) ==
    [status |-> "ok", database |-> IF db_ok = 1 THEN <<"connected">> ELSE <<"unexpected">>]

\* the except clauses of health, in their order
HealthExcept(exc) ==
    IF IsInstance(exc, RuntimeErrorClass)
      THEN [status |-> "ok", database |-> <<"pool_not_initialized">>]
      ELSE [status |-> "degraded", database |-> <<"error: ", exc.msg>>]

CallHealth ==
    /\ Begin("health", NoArgs)
    /\ IF RequirePoolOk
         THEN pc' = "q1" /\ resp' = NoResp
         ELSE Finish(Returned(HTTP_OK, HealthExcept(PoolNotInitialized)))

HealthSelect1 ==
    /\ Awaiting("health", "q1")
    /\ \/ \E db_ok \in {0, 1} :
             /\ issued' = Append(issued, [q |-> "select1", ok |-> TRUE, val |-> db_ok])
             /\ Finish(Returned(HTTP_OK, HealthTry(db_ok)))
       \/ \E exc \in DbErrors :
             /\ issued' = Append(issued, Failed("select1", exc))
             /\ Finish(Returned(HTTP_OK, HealthExcept(exc)))
    /\ UNCHANGED <<pool, life, closes, Store, op, args, clean, prev>>

\* --- list_decks ---

\* `if age is not None:` in place of `if age:`
IsNotNone(age) == age # <<>>

\* `if age:` on an optional string: None and "" are false
Truthy(age) == age # <<>> /\ age[1] # ""

AgeArgs == {<<>>} \cup {<<v>> : v \in FilterValues}

\* FROM decks [WHERE age_range = $1]
WhereAge(age) == IF Truthy(age) THEN {d \in decks : d.age_range = age[1]} ELSE decks

\* ORDER BY id, without DESC
RECURSIVE OrderByIdAsc(_)
OrderByIdAsc(S) ==
    IF S = {} THEN <<>>
    ELSE LET m == CHOOSE x \in S : \A y \in S : x.id <= y.id
         IN <<m>> \o OrderByIdAsc(S \ {m})

\* ORDER BY id DESC
RECURSIVE OrderByIdDesc(_)
OrderByIdDesc(S) ==
    IF S = {} THEN <<>>
    ELSE LET m == CHOOSE x \in S : \A y \in S : y.id <= x.id
         IN <<m>> \o OrderByIdDesc(S \ {m})

\* LIMIT limit OFFSET offset
LimitOffset(rows, limit, offset) == SubSeq(rows, offset + 1, Min(Len(rows), offset + limit))

FetchPage(age, limit, offset) == LimitOffset(OrderByIdDesc(WhereAge(age)), limit, offset)

\* SELECT COUNT(*) FROM decks [WHERE age_range = $1]
CountDecks(age) == Cardinality(WhereAge(age))

\* topic, voice and created_at are copied like the fields kept here
DeckSummary(r) == [id |-> r.id, age_range |-> r.age_range, card_count |-> r.card_count]

DecksResponse(rows, total) ==
    [decks |-> [i \in 1..Len(rows) |-> DeckSummary(rows[i])], total |-> total]

DatabaseError(exc) == <<"Database error: ", exc.msg>>

\* an except clause answering with an empty page in place of the 500
ListDecksExceptEmptyPage(exc) ==
    Returned(HTTP_OK, [decks |-> <<>>, total |-> 0, detail |-> DatabaseError(exc)])

\* except Exception of list_decks
ListDecksExcept(exc) == Returned(HTTP_SERVER_ERROR, [detail |-> DatabaseError(exc)])

CallListDecks ==
    /\ \E age \in AgeArgs, limit \in LimitGe..Min(MaxLimit, LimitLe), offset \in OffsetGe..MaxOffset :
          Begin("list_decks", [age |-> age, limit |-> limit, offset |-> offset, deck_id |-> 0])
    /\ IF RequirePoolOk
         THEN pc' = "q1" /\ resp' = NoResp
         ELSE Finish(Raised(PoolNotInitialized))

ListDecksPage ==
    /\ Awaiting("list_decks", "q1")
    /\ \/ /\ issued' = Append(issued, Answered("page"))
          /\ loc' = [rows |-> FetchPage(args.age, args.limit, args.offset)]
          /\ pc' = "q2"
          /\ UNCHANGED resp
       \/ \E exc \in DbErrors :
             /\ issued' = Append(issued, Failed("page", exc))
             /\ Finish(ListDecksExcept(exc))
    /\ UNCHANGED <<pool, life, closes, Store, op, args, clean, prev>>

ListDecksCount ==
    /\ Awaiting("list_decks", "q2")
    /\ \/ /\ issued' = Append(issued, Answered("count"))
          /\ Finish(Returned(HTTP_OK, DecksResponse(loc.rows, CountDecks(args.age))))
       \/ \E exc \in DbErrors :
             /\ issued' = Append(issued, Failed("count", exc))
             /\ Finish(ListDecksExcept(exc))
    /\ UNCHANGED <<pool, life, closes, Store, op, args, clean, prev>>

\* --- get_deck ---

HTTPException(status_code, detail) ==
    [cls |-> "HTTPException", status_code |-> status_code, detail |-> detail]

DeckNotFound(deck_id) ==
    HTTPException(HTTP_NOT_FOUND, <<"Deck ">> \o IntStr(deck_id) \o <<" not found">>)

\* get_deck without its `except HTTPException: raise` clause
GetDeckExceptNoReraise(exc) ==
    Returned(HTTP_SERVER_ERROR,
             [detail |-> IF IsInstance(exc, "HTTPException")
                           THEN <<"Database error: ">> \o exc.detail
                           ELSE DatabaseError(exc)])

\* the except clauses of get_deck, in their order
GetDeckExcept(exc) ==
    IF IsInstance(exc, "HTTPException")
      THEN Raised(exc)
      ELSE Returned(HTTP_SERVER_ERROR, [detail |-> DatabaseError(exc)])

\* SELECT ... FROM decks WHERE id = $1: the rows found (one at most)
FetchRow(deck_id) == {d \in decks : d.id = deck_id}

IsSortedByPosition(s) == \A i \in 1..(Len(s) - 1) : s[i].position <= s[i + 1].position

\* the cards query without its ORDER BY
FetchCardsUnordered(deck_id) == Perms({c \in cards : c.deck_id = deck_id})

\* SELECT ... FROM cards WHERE deck_id = $1 ORDER BY position: the orders the
\* database may answer in (the order among equal positions is its choice)
FetchCards(deck_id) ==
    {s \in Perms({c \in cards : c.deck_id = deck_id}) : IsSortedByPosition(s)}

\* answer is copied like question
CardResponse(c) == [position |-> c.position, question |-> c.question]

DeckDetail(row, card_rows) ==
    [id |-> row.id, age_range |-> row.age_range, card_count |-> row.card_count,
     cards |-> [i \in 1..Len(card_rows) |-> CardResponse(card_rows[i])]]

CallGetDeck ==
    /\ \E deck_id \in DeckIds \cup {AbsentId} :
          Begin("get_deck", [age |-> <<>>, limit |-> 0, offset |-> 0, deck_id |-> deck_id])
    /\ IF RequirePoolOk
         THEN pc' = "q1" /\ resp' = NoResp
         ELSE Finish(Raised(PoolNotInitialized))

GetDeckRow ==
    /\ Awaiting("get_deck", "q1")
    /\ \/ /\ issued' = Append(issued, Answered("row"))
          /\ IF FetchRow(args.deck_id) = {}
               THEN Finish(GetDeckExcept(DeckNotFound(args.deck_id)))
               ELSE /\ loc' = [row |-> CHOOSE d \in FetchRow(args.deck_id) : TRUE]
                    /\ pc' = "q2"
                    /\ UNCHANGED resp
       \/ \E exc \in DbErrors :
             /\ issued' = Append(issued, Failed("row", exc))
             /\ Finish(GetDeckExcept(exc))
    /\ UNCHANGED <<pool, life, closes, Store, op, args, clean, prev>>

GetDeckCards ==
    /\ Awaiting("get_deck", "q2")
    /\ \/ /\ issued' = Append(issued, Answered("cards"))
          /\ \E card_rows \in FetchCards(args.deck_id) :
                Finish(Returned(HTTP_OK, DeckDetail(loc.row, card_rows)))
       \/ \E exc \in DbErrors :
             /\ issued' = Append(issued, Failed("cards", exc))
             /\ Finish(GetDeckExcept(exc))
    /\ UNCHANGED <<pool, life, closes, Store, op, args, clean, prev>>

\* --- metrics ---

Metric(key, value) == [key |-> key, value |-> value, unit |-> "count"]

MetricsBody(total_decks, total_cards) ==
    [metrics |-> <<Metric("total_decks", total_decks), Metric("total_cards", total_cards)>>]

\* an except clause of metrics that leaves the status at its default
MetricsExceptDefaultStatus(exc) ==
    Returned(HTTP_OK, [metrics |-> <<>>, error |-> DatabaseError(exc)])

\* except Exception of metrics
MetricsExcept(exc) ==
    Returned(HTTP_SERVER_ERROR, [metrics |-> <<>>, error |-> DatabaseError(exc)])

CallMetrics ==
    /\ Begin("metrics", NoArgs)
    /\ IF RequirePoolOk
         THEN pc' = "q1" /\ resp' = NoResp
         ELSE Finish(Raised(PoolNotInitialized))

MetricsCountDecks ==
    /\ Awaiting("metrics", "q1")
    /\ \/ /\ issued' = Append(issued, Answered("count_decks"))
          /\ loc' = [total_decks |-> Cardinality(decks)]
          /\ pc' = "q2"
          /\ UNCHANGED resp
       \/ \E exc \in DbErrors :
             /\ issued' = Append(issued, Failed("count_decks", exc))
             /\ Finish(MetricsExcept(exc))
    /\ UNCHANGED <<pool, life, closes, Store, op, args, clean, prev>>

MetricsCountCards ==
    /\ Awaiting("metrics", "q2")
    /\ \/ /\ issued' = Append(issued, Answered("count_cards"))
          /\ Finish(Returned(HTTP_OK, MetricsBody(loc.total_decks, Cardinality(cards))))
       \/ \E exc \in DbErrors :
             /\ issued' = Append(issued, Failed("count_cards", exc))
             /\ Finish(MetricsExcept(exc))
    /\ UNCHANGED <<pool, life, closes, Store, op, args, clean, prev>>

---------------------------------------------------------------------------

Init ==
    /\ pool = "None"
    /\ life = "start"
    /\ closes = 0
    /\ decks = {}
    /\ cards = {}
    /\ op = "idle"
    /\ pc = "idle"
    /\ args = NoArgs
    /\ loc = NoLoc
    /\ issued = <<>>
    /\ resp = NoResp
    /\ clean = TRUE
    /\ prev = <<>>

Next ==
    \/ StartupOk
    \/ StartupFails
    \/ Shutdown
    \/ ShutdownByException
    \/ InsertDeck
    \/ DeleteDeck
    \/ InsertCard
    \/ DeleteCard
    \/ CallHealth
    \/ HealthSelect1
    \/ CallListDecks
    \/ ListDecksPage
    \/ ListDecksCount
    \/ CallGetDeck
    \/ GetDeckRow
    \/ GetDeckCards
    \/ CallMetrics
    \/ MetricsCountDecks
    \/ MetricsCountCards

Spec == Init /\ [][Next]_vars

---------------------------------------------------------------------------
(* Properties *)

Done(o) == op = o /\ pc = "done"
Ok200 == resp.kind = "return" /\ resp.status = HTTP_OK
FailedQueries == {i \in DOMAIN issued : ~issued[i].ok}
TimesIssued(q) == Cardinality({i \in DOMAIN issued : issued[i].q = q})
DecimalText == <<"1", "2", "3", "4", "5", "6", "7", "8", "9">>

\* C1: get_deck for an id that no stored deck has, with the pool initialized
\* and the lookup query answered, raises HTTPException 404 with the detail
\* "Deck <id> not found"; it returns no 500 and issues no cards query.
C1_MissingDeckIs404 ==
    ( /\ Done("get_deck")
      /\ issued # <<>> /\ issued[1].ok
      /\ \/ clean /\ \A d \in decks : d.id # args.deck_id
         \/ args.deck_id = AbsentId )
    => /\ resp.kind = "raise"
       /\ resp.body.exc.cls = "HTTPException"
       /\ resp.body.exc.status_code = 404
       /\ resp.body.exc.detail = <<"Deck ", DecimalText[args.deck_id], " not found">>
       /\ issued = <<Answered("row")>>

\* a missing id among the ids decks are given, while another deck is stored
C1_Witness ==
    /\ Done("get_deck") /\ clean
    /\ issued # <<>> /\ issued[1].ok
    /\ args.deck_id \in DeckIds
    /\ decks # {} /\ \A d \in decks : d.id # args.deck_id
    /\ resp.kind = "raise"

\* the set the claim filters by: all decks when the filter is absent or empty
ClaimFiltered ==
    IF args.age = <<>> \/ args.age = <<"">>
      THEN decks
      ELSE {d \in decks : d.age_range = args.age[1]}

\* C2: with no write during the request, the decks of a list_decks 200 are the
\* elements at positions offset .. offset+limit-1 of the filtered decks in
\* descending id order: at most limit of them, each a filtered deck, the i-th
\* one having exactly offset+i-1 filtered decks of greater id, and none when
\* offset is at or past the size of the filtered set.
C2_PageIsSlice ==
    (Done("list_decks") /\ Ok200 /\ clean) =>
       LET ds == resp.body.decks
           n == Cardinality(ClaimFiltered)
           rest == IF n > args.offset THEN n - args.offset ELSE 0
       IN /\ Len(ds) <= args.limit
          /\ Len(ds) = Min(args.limit, rest)
          /\ \A i \in 1..Len(ds) :
                /\ \E d \in ClaimFiltered :
                      /\ d.id = ds[i].id /\ d.age_range = ds[i].age_range
                      /\ d.card_count = ds[i].card_count
                /\ Cardinality({d \in ClaimFiltered : d.id > ds[i].id}) = args.offset + i - 1
          /\ \A i \in 1..(Len(ds) - 1) : ds[i].id > ds[i + 1].id

\* a page that starts past the first of two decks matching a filter value
C2_Witness ==
    /\ Done("list_decks") /\ Ok200 /\ clean
    /\ args.age = <<"6-8">> /\ args.offset = 1
    /\ Cardinality(ClaimFiltered) = 2
    /\ Len(resp.body.decks) = 1

\* C3: with no write during the request, the total of a list_decks 200 is the
\* number of stored decks whose age_range equals the filter value when the
\* filter is a non-empty value, and the number of all stored decks when the
\* filter is absent or empty, whatever limit and offset are.
C3_TotalIsCount ==
    (Done("list_decks") /\ Ok200 /\ clean) =>
       resp.body.total =
          IF args.age # <<>> /\ args.age # <<"">>
            THEN Cardinality({d \in decks : d.age_range = args.age[1]})
            ELSE Cardinality(decks)

\* an empty filter over two decks, of which the page holds one
C3_Witness ==
    /\ Done("list_decks") /\ Ok200 /\ clean
    /\ args.age = <<"">>
    /\ resp.body.total = 2
    /\ Len(resp.body.decks) = 1

C5_HealthReportsEveryState ==
    Done("health") =>
       /\ resp.kind = "return"
       /\ {"status", "database"} \subseteq DOMAIN resp.body
       /\ (resp.body.database = <<"connected">>)
             <=> (issued # <<>> /\ issued[1].ok /\ issued[1].val = 1)
       /\ (issued # <<>> /\ issued[1].ok /\ issued[1].val # 1)
             => resp.body.database = <<"unexpected">>
       /\ (issued # <<>> /\ ~issued[1].ok)
             => /\ resp.body.status = "degraded"
                /\ resp.body.database = <<"error: ", issued[1].exc.msg>>

\* C6 as stated: health with the pool uninitialized issues no query and
\* reports a status other than "ok", in a result that differs from every
\* result it reports for a failed query.
C6_UninitializedIsDegraded ==
    (Done("health") /\ pool = "None") =>
       /\ issued = <<>>
       /\ resp.body.status # "ok"
       /\ \A exc \in DbErrors : resp.body # HealthExcept(exc)

\* C7 as stated: when the lifespan has ended, on whichever path, a pool that
\* was created has been closed exactly once and no pool is open.
C7_PoolClosedOnEveryExit ==
    life \in {"done", "failed", "crashed"} =>
       \/ pool = "None" /\ closes = 0
       \/ pool = "closed" /\ closes = 1

\* C8 as stated: list_decks, get_deck and metrics let no exception leave the
\* handler but the 404 of a missing deck; every other failure is returned as
\* a response.
C8_NoExceptionEscapes ==
    (pc = "done" /\ op \in {"list_decks", "get_deck", "metrics"}) =>
       \/ resp.kind = "return"
       \/ /\ op = "get_deck"
          /\ resp.kind = "raise"
          /\ resp.body.exc.cls = "HTTPException"

DeckCards(id) == {c \in cards : c.deck_id = id}
UniquePositions(S) == \A c, e \in S : c.position = e.position => c = e

\* the cards of a get_deck 200 are all and only the cards of the deck, in
\* ascending position order, strictly when positions are unique, however
\* many card_count says
CardsAreTheDecks ==
    LET cs == resp.body.cards
        own == DeckCards(args.deck_id)
    IN /\ resp.body.id = args.deck_id
       /\ Len(cs) = Cardinality(own)
       /\ {cs[i] : i \in 1..Len(cs)} = {[position |-> c.position, question |-> c.question] : c \in own}
       /\ \A i \in 1..(Len(cs) - 1) : cs[i].position <= cs[i + 1].position
       /\ UniquePositions(own) => \A i \in 1..(Len(cs) - 1) : cs[i].position < cs[i + 1].position

\* C9 as stated: with no write during the request, the cards of a get_deck
\* 200 are all and only the cards of the deck in ascending position order,
\* and the response equals that of the get_deck call of the same id before
\* it when no write happened between or during the two.
C9_CardsAndRoundTrip ==
    (Done("get_deck") /\ Ok200 /\ clean) =>
       /\ CardsAreTheDecks
       /\ prev # <<>> => prev[1] = resp

\* C9 amended: with no write during the request, the cards of a get_deck 200
\* are all and only the cards of the deck in ascending position order
\* (strictly ascending when positions are unique in the deck), their number
\* not depending on card_count; the response equals that of the get_deck
\* call of the same id before it, no write having happened between or during
\* the two, when the positions of the deck's cards are unique.
C9_CardsAndRoundTripUnique ==
    (Done("get_deck") /\ Ok200 /\ clean) =>
       /\ CardsAreTheDecks
       /\ (prev # <<>> /\ UniquePositions(DeckCards(args.deck_id))) => prev[1] = resp

\* a second call for a deck of two cards at two positions whose card_count
\* says otherwise
C9_Witness ==
    /\ Done("get_deck") /\ Ok200 /\ clean
    /\ prev # <<>>
    /\ Len(resp.body.cards) = 2
    /\ resp.body.cards[1].position < resp.body.cards[2].position
    /\ resp.body.card_count # 2

\* C10: list_decks issues each of its two queries at most once; when one of
\* them fails the response is a 500 whose only field is a detail holding the
\* text of the error, with neither decks nor total; a 200 is returned only
\* after both queries were answered.
C10_NoPartialSuccess ==
    op = "list_decks" =>
       /\ TimesIssued("page") <= 1
       /\ TimesIssued("count") <= 1
       /\ (pc = "done" /\ FailedQueries # {}) =>
             /\ resp.kind = "return"
             /\ resp.status = 500
             /\ DOMAIN resp.body = {"detail"}
             /\ \E i \in FailedQueries, k \in DOMAIN resp.body.detail :
                   resp.body.detail[k] = issued[i].exc.msg
       /\ (pc = "done" /\ Ok200) => issued = <<Answered("page"), Answered("count")>>

\* the count query fails after the page query was answered with a deck
C10_Witness ==
    /\ Done("list_decks")
    /\ Len(issued) = 2 /\ issued[1].ok /\ ~issued[2].ok
    /\ decks # {} /\ clean
    /\ resp.status = 500

====
